---- MODULE Spec2Model ----
(***************************************************************************)
(* Master-order / sub-order consistency protocol of the supplier dashboard *)
(* (masterOrderService, ProductService) and the change-feed notification   *)
(* trigger (OrderNotificationTrigger).                                     *)
(*                                                                         *)
(* Every service method is asynchronous: it suspends at each document      *)
(* read, write or HTTP call.  A call is therefore modelled as a process    *)
(* that takes one atomic step per awaited store operation, and several     *)
(* calls interleave between those steps.                                   *)
(***************************************************************************)
EXTENDS Integers, Sequences, FiniteSets, TLC

VARIABLES
    subOrders,      \* collection 'subOrders': id -> document
    masterOrders,   \* collection 'masterOrders': id -> document
    products,       \* collection 'products': id -> stockQuantity
    proc,           \* the asynchronous service calls in flight
    clock,          \* number of service calls started so far (the value of "now")
    customerEmails, \* POSTs to <backend>/send-email, per master order
    seenUnanimous,  \* history: <<master, status>> that some sync read as shared by all children
    lastDone,       \* history: per sub-order, the status argument of the last returned update
    decrements,     \* history: per sub-order, the inventory batches committed for its items
    subs,           \* onSnapshot subscriptions created so far, by number
    activeListeners,        \* OrderNotificationTrigger.activeListeners
    lastProcessedTimestamp, \* OrderNotificationTrigger.lastProcessedTimestamp
    now,            \* Date.now(), in seconds
    tasks,          \* the async change callbacks started so far, by number
    notificationLogs,       \* collection 'notificationLogs'
    processedOrderStates,   \* collection 'processedOrderStates'
    mailSends,      \* POSTs to <backend>/send-supplier-email
    notifications,  \* collection 'notifications' (in-app rows)
    dropped,        \* history: number of changes in the batches the throttle dropped
    dispatches,     \* the SupplierNotificationService.sendOrderNotification calls so far, by number
    supplierNotificationLogs, \* collection 'supplierNotificationLogs'
    isInitialized,  \* client EmailService.isInitialized
    isInitializing, \* client EmailService.isInitializing
    clientCalls,    \* the calls of the client EmailService made so far, by number
    emailPosts,     \* POSTs of the client EmailService to the mail relay
    relayFailed     \* history: some request to the mail relay got no ok reply

ordersVars == <<subOrders, masterOrders, products, proc, clock,
                customerEmails, seenUnanimous, lastDone, decrements>>

feedVars == <<subs, activeListeners, lastProcessedTimestamp, now, tasks,
              notificationLogs, processedOrderStates, mailSends, notifications, dropped>>

dispatchVars == <<dispatches, supplierNotificationLogs>>

clientVars == <<isInitialized, isInitializing, clientCalls, emailPosts, relayFailed>>

vars == <<subOrders, masterOrders, products, proc, clock,
          customerEmails, seenUnanimous, lastDone, decrements,
          subs, activeListeners, lastProcessedTimestamp, now, tasks,
          notificationLogs, processedOrderStates, mailSends, notifications, dropped,
          dispatches, supplierNotificationLogs,
          isInitialized, isInitializing, clientCalls, emailPosts, relayFailed>>

----------------------------------------------------------------------------
(* Bounds of the model *)

\* largest initial stockQuantity of a product
MaxStock == 2
\* number of service calls started in one behaviour
MaxCalls == 3
\* number of initializeOrderMonitoring calls in one behaviour
MaxSubs == 2
\* number of changes the feed delivers in one behaviour
MaxChanges == 2
\* seconds that pass in one behaviour
MaxTicks == 2
\* number of direct sendOrderNotification calls in one behaviour
MaxDispatches == 2
\* number of changes the feed delivers to the one subscription of a stream
MaxStream == 3
\* number of calls of the client EmailService in one behaviour
MaxClientCalls == 3
\* number of initializeOrderMonitoring calls in one behaviour of the listeners alone
MaxListeners == 4

----------------------------------------------------------------------------
(* Data model *)

None == "none"

Status == {"pending", "confirmed", "preparing", "out_for_delivery", "delivered", "cancelled"}
PaymentStatus == {"pending", "paid", "failed", "refunded"}

\* the <<status, paymentStatus>> arguments the callers of updateSubOrderStatus pass;
\* None is the omitted optional paymentStatus
UpdateInputs == { <<"confirmed", None>>, <<"out_for_delivery", None>>,
                  <<"delivered", None>>, <<"confirmed", "paid">> }

\* the concurrent callers (two browser sessions of the dashboard)
Procs == {"p1", "p2"}

SubIds == {"S1", "S2"}
\* "S0" is an id with no document
SubIdInputs == SubIds \cup {"S0"}
\* "M2" is a masterOrderId no sub-order refers to and that has no document
MasterIds == {"M1"}
MasterIdInputs == MasterIds \cup {"M2"}
ProductIds == {"A", "B"}
\* a product id of the store, or one that is not
ProductInputs == ProductIds \cup {"PX"}

MasterOf(s) == "M1"
\* createdAt of the sub-orders: created as a group, in this order
CreatedAt(s) == IF s = "S1" THEN 1 ELSE 2

Item(pid, q) == [productId |-> pid, quantity |-> q]

\* the line items of each sub-order
ItemsOf(s) == IF s = "S1" THEN <<Item("A", 1), Item("B", 1)>> ELSE <<Item("A", 1)>>

\* the item lists direct callers of the Stock Ledger pass; "PX" has no document
ItemLists == { <<Item("A", 1), Item("B", 2)>>,
               <<Item("A", 1), Item("PX", 1)>>,
               <<Item("A", 1), Item("A", 1)>>,
               <<Item("B", 1)>> }

HasUserEmail(m) == m = "M1"

\* the suppliers; the feed of a supplier carries the sub-orders with its fournisseurId
Suppliers == {"F1"}
FournisseurOf(o) == "F1"

\* the throttle: currentTime - lastProcessed < 2000, in seconds
Cooldown == 2
\* lastProcessedTimestamp.get(f) is undefined
Absent == -1

\* the changes the feed delivers: a sub-order document as it stood at some moment.
\* A sub-order id is a Firestore auto id and holds no '-'.
Change(o, type, st, ps) == [orderId |-> o, type |-> type, status |-> st, paymentStatus |-> ps]
\* An id is written as the list of its parts between '-': one part for an auto id.
ChangeInputs == { Change(<<"O1">>, "added", "pending", "pending"),
                  Change(<<"O1">>, "modified", "confirmed", "pending"),
                  Change(<<"O2">>, "added", "pending", "pending") }

\* the text of an order id, one character per element: a mixed-case id longer than
\* eight characters, and one shorter than eight
IdChars(o) ==
    IF o = <<"O1">> THEN <<"a", "b", "c", "X", "Y", "Z", "0", "1", "2", "3", "x", "y">>
                    ELSE <<"f", "7", "Q", "d", "2">>

LowerCase == <<"a", "b", "c", "d", "e", "f", "g", "h", "i", "j", "k", "l", "m",
               "n", "o", "p", "q", "r", "s", "t", "u", "v", "w", "x", "y", "z">>
UpperCase == <<"A", "B", "C", "D", "E", "F", "G", "H", "I", "J", "K", "L", "M",
               "N", "O", "P", "Q", "R", "S", "T", "U", "V", "W", "X", "Y", "Z">>

\* String.prototype.toUpperCase, on a list of characters
ToUpperCase(s) ==
    [i \in DOMAIN s |->
        IF \E k \in DOMAIN LowerCase : LowerCase[k] = s[i]
        THEN UpperCase[CHOOSE k \in DOMAIN LowerCase : LowerCase[k] = s[i]]
        ELSE s[i]]

\* String.prototype.slice(-n): the trailing n characters, the whole string when shorter
Slice(s, n) == IF Len(s) <= n THEN s ELSE SubSeq(s, Len(s) - n + 1, Len(s))

\* order.id.slice(-8).toUpperCase()
OrderNumber(id) == ToUpperCase(Slice(id, 8))

\* order.id?.slice(-8).toUpperCase() || `ORD-${Date.now()}`
MailOrderNumber(id, t) == IF OrderNumber(id) = <<>> THEN <<"ORD-", t>> ELSE OrderNumber(id)

\* the order number in the in-app message: none in the 'added' message,
\* order.id.slice(-8) in the 'modified' one
InAppOrderNumber(id, changeType) == IF changeType = "added" THEN <<>> ELSE Slice(id, 8)

\* what the dispatcher's send comes to: the relay accepts the request, rejects it, or the
\* supplier's contact cannot be resolved and no request is made
SendOutcomes == {"accepted", "rejected", "unresolved"}
BackendUrlConfigured == TRUE

----------------------------------------------------------------------------
(* A process: the position of one call and its local variables *)

NoCheck == [productId |-> None, newStock |-> -1]

IdleProc ==
    [ pc            |-> "idle",
      op            |-> None,         \* the method the caller invoked
      subOrderId    |-> None,
      status        |-> None,
      paymentStatus |-> None,
      previousStatus |-> None,        \* currentSubOrder.status
      previousPayment |-> None,       \* currentSubOrder.paymentStatus
      items         |-> <<>>,         \* argument of decrementMultipleProductsStock
      checks        |-> <<>>,         \* productChecks, one per line read (NoCheck is null)
      reads         |-> <<>>,         \* currentStock seen per line, -1 when the product is missing
      stockOk       |-> TRUE,         \* stockResult.success
      errors        |-> <<>>,
      masterOrderId |-> None,
      statuses      |-> <<>>,         \* read by the sync
      paymentStatuses |-> <<>>,
      repeat        |-> FALSE,        \* history: second of two out_for_delivery calls in sequence
      failed        |-> FALSE,        \* history: a notification of this call has failed
      wrote         |-> {},           \* history: the collections this call has written
      changed       |-> FALSE,        \* history: the sync's write changed the master's
                                      \* status or paymentStatus
      result        |-> None ]

Returned(res, errs) == [IdleProc EXCEPT !.result = res, !.errors = errs]

----------------------------------------------------------------------------
(* Init *)

FreshOrder == [status |-> "pending", paymentStatus |-> "pending",
               updatedAt |-> 0, confirmedAt |-> 0, deliveredAt |-> 0]

\* the sub-order document as the checkout created it
TotalOf(s) == IF s = "S1" THEN 30 ELSE 10
FreshSubOrder(s) ==
    [status |-> "pending", paymentStatus |-> "pending",
     updatedAt |-> 0, confirmedAt |-> 0, deliveredAt |-> 0,
     items |-> ItemsOf(s), total |-> TotalOf(s),
     masterOrderId |-> MasterOf(s), fournisseurId |-> FournisseurOf(s)]

\* the trigger singleton after construction, and the collections it writes, empty
\* the client EmailService singleton after construction, nothing sent
InitClient ==
    /\ isInitialized = FALSE
    /\ isInitializing = FALSE
    /\ clientCalls = <<>>
    /\ emailPosts = {}
    /\ relayFailed = FALSE

InitTrigger ==
    /\ subs = <<>>
    /\ activeListeners = [f \in Suppliers |-> 0]
    /\ lastProcessedTimestamp = [f \in Suppliers |-> Absent]
    /\ now = Cooldown
    /\ tasks = <<>>
    /\ notificationLogs = {}
    /\ processedOrderStates = {}
    /\ mailSends = {}
    /\ notifications = {}
    /\ dropped = 0
    /\ dispatches = <<>>
    /\ supplierNotificationLogs = {}
    /\ InitClient

\* the stores after a checkout created the orders, no call in flight
InitStores ==
    /\ subOrders = [s \in SubIds |-> FreshSubOrder(s)]
    /\ masterOrders = [m \in MasterIds |-> FreshOrder]
    /\ proc = [p \in Procs |-> IdleProc]
    /\ clock = 0
    /\ customerEmails = [m \in MasterIds |-> 0]
    /\ seenUnanimous = {}
    /\ lastDone = [s \in SubIds |-> None]
    /\ decrements = [s \in SubIds |-> 0]

InitOrders ==
    /\ InitStores
    /\ InitTrigger
    /\ products = [pid \in ProductIds |-> IF pid = "A" THEN MaxStock ELSE MaxStock - 1]

----------------------------------------------------------------------------
(* Stock Ledger: ProductService.decrementMultipleProductsStock *)

\* mutant: the stock test is missing
Insufficient_Never(currentStock, quantity) == FALSE

\* currentStock < item.quantity
Insufficient(currentStock, quantity) == currentStock < quantity

\* the error pushed for one line, None when the line passes
LineError(item, prods) ==
    IF item.productId \notin DOMAIN prods THEN <<"not_found", item.productId>>
    ELSE IF Insufficient(prods[item.productId], item.quantity)
         THEN <<"insufficient", item.productId>>
         ELSE None

\* mutant: the quantity is not subtracted
LineCheck_KeepsStock(item, prods) ==
    IF LineError(item, prods) # None THEN NoCheck
    ELSE [productId |-> item.productId, newStock |-> prods[item.productId]]

\* the value the line's async callback returns
LineCheck(item, prods) ==
    IF LineError(item, prods) # None THEN NoCheck
    ELSE [productId |-> item.productId,
          newStock  |-> prods[item.productId] - item.quantity]

\* mutant: the early return on errors is missing, the lines that passed are written
AbortsBatch_Never(errors) == FALSE

\* if (errors.length > 0) return { success: false, errors }
AbortsBatch(errors) == Len(errors) > 0

\* mutant: the batch is never committed
ApplyBatch_Nothing(prods, checks) == prods

\* productChecks.forEach(check => batch.update(...)); batch.commit()
RECURSIVE ApplyBatch(_, _)
ApplyBatch(prods, checks) ==
    IF checks = <<>> THEN prods
    ELSE LET c == Head(checks)
             next == IF c = NoCheck THEN prods
                     ELSE [prods EXCEPT ![c.productId] = c.newStock]
         IN ApplyBatch(next, Tail(checks))

\* a direct call of the Stock Ledger
StartDecrement(p, items) ==
    /\ proc[p].pc = "idle"
    /\ clock < MaxCalls
    /\ clock' = clock + 1
    /\ proc' = [proc EXCEPT ![p] =
                  [IdleProc EXCEPT !.pc = "dec_read", !.op = "decrement", !.items = items]]
    /\ UNCHANGED <<subOrders, masterOrders, products, customerEmails,
                   seenUnanimous, lastDone, decrements>>

\* one line's getDoc(productRef) and validation
DecRead(p) ==
    /\ proc[p].pc = "dec_read"
    /\ LET i    == Len(proc[p].checks) + 1
           item == proc[p].items[i]
           err  == LineError(item, products)
       IN proc' = [proc EXCEPT ![p] =
                     [@ EXCEPT
                        !.checks = Append(@, LineCheck(item, products)),
                        !.reads  = Append(@, IF item.productId \in DOMAIN products
                                             THEN products[item.productId] ELSE -1),
                        !.errors = IF err = None THEN @ ELSE Append(@, err),
                        !.pc     = IF i = Len(proc[p].items) THEN "dec_finish" ELSE "dec_read"]]
    /\ UNCHANGED <<subOrders, masterOrders, products, clock, customerEmails,
                   seenUnanimous, lastDone, decrements>>

\* return { success: true, errors: [] }, with the history of the lines and the stock read
Succeeded(c) == [Returned("success", <<>>) EXCEPT !.items = c.items, !.reads = c.reads]

\* mutant: a failed decrement is thrown to the caller of updateSubOrderStatus
ContinuesAfterStock_OnlyOnSuccess(success) == success

\* if (!stockResult.success) { log } else { log }: the update goes on either way
ContinuesAfterStock(success) == TRUE

\* after Promise.all: abort on any error, else commit the batch
DecFinish(p) ==
    /\ proc[p].pc = "dec_finish"
    /\ LET abort == AbortsBatch(proc[p].errors)
       IN /\ products' = IF abort THEN products ELSE ApplyBatch(products, proc[p].checks)
          /\ IF proc[p].op = "decrement"
             THEN /\ proc' = [proc EXCEPT ![p] =
                                IF abort THEN Returned("failure", proc[p].errors)
                                         ELSE Succeeded(proc[p])]
                  /\ UNCHANGED decrements
             ELSE /\ proc' = [proc EXCEPT ![p] =
                                IF ContinuesAfterStock(~abort)
                                THEN [@ EXCEPT !.pc = "upd_write", !.stockOk = ~abort,
                                               !.wrote = IF abort THEN @
                                                         ELSE @ \cup {"products"}]
                                ELSE Returned("raised", proc[p].errors)]
                  /\ decrements' = IF abort THEN decrements
                                   ELSE [decrements EXCEPT ![proc[p].subOrderId] = @ + 1]
    /\ UNCHANGED <<subOrders, masterOrders, clock, customerEmails, seenUnanimous, lastDone>>

\* ProductService.decrementProductStock(productId, quantity), called directly
StartDecrementOne(p, productId, quantity) ==
    /\ proc[p].pc = "idle"
    /\ clock < MaxCalls
    /\ clock' = clock + 1
    /\ proc' = [proc EXCEPT ![p] =
                  [IdleProc EXCEPT !.pc = "one_read", !.op = "decrementOne",
                                   !.items = <<Item(productId, quantity)>>]]
    /\ UNCHANGED <<subOrders, masterOrders, products, customerEmails,
                   seenUnanimous, lastDone, decrements>>

\* getDoc(productRef); return false when the product is missing or the stock is short
OneRead(p) ==
    /\ proc[p].pc = "one_read"
    /\ LET item == proc[p].items[1]
       IN proc' = [proc EXCEPT ![p] =
                     IF LineError(item, products) # None
                     THEN Returned("false", <<>>)
                     ELSE [@ EXCEPT !.pc = "one_write",
                                    !.reads = <<products[item.productId]>>,
                                    !.checks = <<LineCheck(item, products)>>]]
    /\ UNCHANGED <<subOrders, masterOrders, products, clock, customerEmails,
                   seenUnanimous, lastDone, decrements>>

\* updateDoc(productRef, {stockQuantity: newStock}); return true
OneWrite(p) ==
    /\ proc[p].pc = "one_write"
    /\ products' = ApplyBatch(products, proc[p].checks)
    /\ proc' = [proc EXCEPT ![p] = Returned("true", <<>>)]
    /\ UNCHANGED <<subOrders, masterOrders, clock, customerEmails,
                   seenUnanimous, lastDone, decrements>>

----------------------------------------------------------------------------
(* Sub-Order Store: masterOrderService.updateSubOrderStatus *)

\* mutant: the previous status is not consulted
ShouldDecrementStock_NoPrevious(status, previousStatus) == status = "out_for_delivery"

\* status === 'out_for_delivery' && previousStatus !== 'out_for_delivery'
ShouldDecrementStock(status, previousStatus) ==
    status = "out_for_delivery" /\ previousStatus # "out_for_delivery"

\* mutant: an omitted paymentStatus argument is written as pending
PaymentWritten_Default(current, paymentStatus) ==
    IF paymentStatus # None THEN paymentStatus ELSE "pending"

\* if (paymentStatus) updateData.paymentStatus = paymentStatus; updateDoc keeps the
\* fields updateData does not name
PaymentWritten(current, paymentStatus) ==
    IF paymentStatus # None THEN paymentStatus ELSE current

\* mutant: both timestamps are written on every status write
SubOrderUpdate_StampsAll(doc, status, paymentStatus, stamp) ==
    [doc EXCEPT !.status = status,
                !.updatedAt = stamp,
                !.paymentStatus = IF paymentStatus # None THEN paymentStatus ELSE @,
                !.confirmedAt = stamp,
                !.deliveredAt = stamp]

\* updateData written to the sub-order
SubOrderUpdate(doc, status, paymentStatus, stamp) ==
    [doc EXCEPT !.status = status,
                !.updatedAt = stamp,
                !.paymentStatus = PaymentWritten(@, paymentStatus),
                !.confirmedAt = IF status = "confirmed" THEN stamp ELSE @,
                !.deliveredAt = IF status = "delivered" THEN stamp ELSE @]

\* the call and its first await: getDoc(subOrderRef)
StartUpdate(p, subOrderId, status, paymentStatus) ==
    /\ proc[p].pc = "idle"
    /\ clock < MaxCalls
    /\ clock' = clock + 1
    /\ IF subOrderId \notin DOMAIN subOrders
       THEN \* throw new Error('SubOrder not found'), rethrown by the catch
            proc' = [proc EXCEPT ![p] =
                       [Returned("raised", <<>>) EXCEPT !.subOrderId = subOrderId]]
       ELSE LET cur == subOrders[subOrderId]
                dec == ShouldDecrementStock(status, cur.status)
            IN proc' = [proc EXCEPT ![p] =
                 [IdleProc EXCEPT
                    !.pc = IF dec THEN "dec_read" ELSE "upd_write",
                    !.op = "update",
                    !.subOrderId = subOrderId,
                    !.status = status,
                    !.paymentStatus = paymentStatus,
                    !.previousStatus = cur.status,
                    !.previousPayment = cur.paymentStatus,
                    !.items = IF dec THEN cur.items ELSE <<>>,
                    !.masterOrderId = cur.masterOrderId,
                    !.repeat = /\ status = "out_for_delivery"
                               /\ lastDone[subOrderId] = "out_for_delivery"
                               /\ \A q \in Procs \ {p} :
                                    ~(proc[q].op = "update" /\ proc[q].subOrderId = subOrderId)]]
    /\ UNCHANGED <<subOrders, masterOrders, products, customerEmails,
                   seenUnanimous, lastDone, decrements>>

\* if (status !== currentSubOrder.status)
NotifiesStatus(c) == c.status # c.previousStatus

\* if (paymentStatus && paymentStatus !== currentSubOrder.paymentStatus)
NotifiesPayment(c) == c.paymentStatus # None /\ c.paymentStatus # c.previousPayment

\* mutant: the call ends after the notifications, without the sync
AfterNotify_SkipsSync(c) == IF NotifiesPayment(c) THEN "upd_notify_pay" ELSE "idle"

\* where the call goes after createOrderNotification
AfterNotify(c) == IF NotifiesPayment(c) THEN "upd_notify_pay" ELSE "sync_read"

\* where the call goes after updateDoc
AfterWrite(c) == IF NotifiesStatus(c) THEN "upd_notify" ELSE AfterNotify(c)

\* what a call of EnhancedNotificationService comes to
NotifyOutcomes == {"created", "throws"}

\* mutant: the notification calls are not wrapped in try/catch
CatchesNotificationError_Missing == FALSE

\* try { await EnhancedNotificationService... } catch (notificationError) { log }
CatchesNotificationError == TRUE

\* updateDoc(subOrderRef, updateData)
UpdWrite(p) ==
    /\ proc[p].pc = "upd_write"
    /\ subOrders' = [subOrders EXCEPT ![proc[p].subOrderId] =
                       SubOrderUpdate(@, proc[p].status, proc[p].paymentStatus, clock)]
    /\ proc' = [proc EXCEPT ![p] = [@ EXCEPT !.pc = AfterWrite(proc[p]),
                                             !.wrote = @ \cup {"subOrders"}]]
    /\ UNCHANGED <<masterOrders, products, clock, customerEmails,
                   seenUnanimous, lastDone, decrements>>

\* await EnhancedNotificationService.createOrderNotification(...), in its try/catch
UpdNotify(p, outcome) ==
    /\ proc[p].pc = "upd_notify"
    /\ proc' = [proc EXCEPT ![p] =
                  IF outcome = "throws" /\ ~ CatchesNotificationError
                  THEN Returned("raised", <<>>)
                  ELSE [@ EXCEPT !.pc = AfterNotify(proc[p]),
                                 !.failed = @ \/ outcome = "throws"]]
    /\ UNCHANGED <<subOrders, masterOrders, products, clock, customerEmails,
                   seenUnanimous, lastDone, decrements>>

\* await EnhancedNotificationService.createPaymentNotification(...), in its try/catch
UpdNotifyPayment(p, outcome) ==
    /\ proc[p].pc = "upd_notify_pay"
    /\ proc' = [proc EXCEPT ![p] =
                  IF outcome = "throws" /\ ~ CatchesNotificationError
                  THEN Returned("raised", <<>>)
                  ELSE [@ EXCEPT !.pc = "sync_read",
                                 !.failed = @ \/ outcome = "throws"]]
    /\ UNCHANGED <<subOrders, masterOrders, products, clock, customerEmails,
                   seenUnanimous, lastDone, decrements>>

----------------------------------------------------------------------------
(* Master-Order Synchronizer: masterOrderService.syncMasterOrderStatus *)

\* getSubOrdersByMasterOrderId: the children, sorted by createdAt
SubOrdersOfMaster(m) ==
    LET ids == {s \in SubIds : MasterOf(s) = m}
    IN IF ids = {} \/ m \notin MasterIds THEN <<>>
       ELSE CHOOSE sq \in [1..Cardinality(ids) -> ids] :
              /\ \A i, j \in DOMAIN sq : i < j => CreatedAt(sq[i]) < CreatedAt(sq[j])

\* xs.every(x => x === xs[0])
AllSame(xs) == \A i \in DOMAIN xs : xs[i] = xs[1]

\* mutant: the master is written only when both fields are unanimous
UpdatesMaster_Both(allStatusesSame, allPaymentStatusesSame) ==
    allStatusesSame /\ allPaymentStatusesSame

\* if (allStatusesSame || allPaymentStatusesSame)
UpdatesMaster(allStatusesSame, allPaymentStatusesSame) ==
    allStatusesSame \/ allPaymentStatusesSame

\* mutant: the status is written under the outer condition
WritesStatus_Either(allStatusesSame, allPaymentStatusesSame) ==
    allStatusesSame \/ allPaymentStatusesSame

\* if (allStatusesSame) updateData.status = statuses[0]
WritesStatus(allStatusesSame, allPaymentStatusesSame) == allStatusesSame

\* if (allPaymentStatusesSame) updateData.paymentStatus = paymentStatuses[0]
WritesPaymentStatus(allStatusesSame, allPaymentStatusesSame) == allPaymentStatusesSame

\* updateData written to the master order
MasterOrderUpdate(doc, statuses, paymentStatuses, stamp) ==
    LET allS == AllSame(statuses)
        allP == AllSame(paymentStatuses)
        ws   == WritesStatus(allS, allP)
    IN [doc EXCEPT
          !.updatedAt = stamp,
          !.status = IF ws THEN statuses[1] ELSE @,
          !.confirmedAt = IF ws /\ statuses[1] = "confirmed" THEN stamp ELSE @,
          !.deliveredAt = IF ws /\ statuses[1] = "delivered" THEN stamp ELSE @,
          !.paymentStatus = IF WritesPaymentStatus(allS, allP) THEN paymentStatuses[1] ELSE @]

\* the call returns to its caller
Return(p) ==
    /\ proc' = [proc EXCEPT ![p] = Returned("ok", <<>>)]
    /\ lastDone' = IF proc[p].op = "update"
                   THEN [lastDone EXCEPT ![proc[p].subOrderId] = proc[p].status]
                   ELSE lastDone

\* a direct call of the synchronizer
StartSync(p, m) ==
    /\ proc[p].pc = "idle"
    /\ clock < MaxCalls
    /\ clock' = clock + 1
    /\ proc' = [proc EXCEPT ![p] =
                  [IdleProc EXCEPT !.pc = "sync_read", !.op = "sync", !.masterOrderId = m]]
    /\ UNCHANGED <<subOrders, masterOrders, products, customerEmails,
                   seenUnanimous, lastDone, decrements>>

\* mutant: a master without sub-orders is synchronized like any other
SkipsSync_Never(children) == FALSE

\* if (subOrders.length === 0) return
SkipsSync(children) == Len(children) = 0

\* getSubOrdersByMasterOrderId and the unanimity tests
SyncRead(p) ==
    /\ proc[p].pc = "sync_read"
    /\ LET m    == proc[p].masterOrderId
           children == SubOrdersOfMaster(m)
           sts  == [i \in DOMAIN children |-> subOrders[children[i]].status]
           pays == [i \in DOMAIN children |-> subOrders[children[i]].paymentStatus]
       IN IF SkipsSync(children)
          THEN Return(p) /\ UNCHANGED seenUnanimous
          ELSE /\ seenUnanimous' = IF AllSame(sts) /\ sts # <<>>
                                   THEN seenUnanimous \cup {<<m, sts[1]>>}
                                   ELSE seenUnanimous
               /\ IF UpdatesMaster(AllSame(sts), AllSame(pays))
                  THEN /\ proc' = [proc EXCEPT ![p] =
                                     [@ EXCEPT !.pc = "sync_write",
                                               !.statuses = sts,
                                               !.paymentStatuses = pays]]
                       /\ UNCHANGED lastDone
                  ELSE Return(p)
    /\ UNCHANGED <<subOrders, masterOrders, products, clock, customerEmails, decrements>>

\* updateDoc(masterOrderRef, updateData)
SyncWrite(p) ==
    /\ proc[p].pc = "sync_write"
    /\ masterOrders' = [masterOrders EXCEPT ![proc[p].masterOrderId] =
                          MasterOrderUpdate(@, proc[p].statuses, proc[p].paymentStatuses, clock)]
    /\ proc' = [proc EXCEPT ![p] =
                  [@ EXCEPT !.pc = "sync_mail",
                            !.wrote = @ \cup {"masterOrders"},
                            !.changed =
                               LET m == proc[p].masterOrderId
                               IN IF m \in DOMAIN masterOrders
                                  THEN \/ masterOrders'[m].status # masterOrders[m].status
                                       \/ masterOrders'[m].paymentStatus
                                             # masterOrders[m].paymentStatus
                                  ELSE FALSE]]
    /\ UNCHANGED <<subOrders, products, clock, customerEmails,
                   seenUnanimous, lastDone, decrements>>

\* what the POST of the customer email comes to: resp.ok, !resp.ok, or fetch throws
MailOutcomes == {"accepted", "rejected", "throws"}

\* getDoc(masterOrderRef) and the POST of the customer email, in their try/catch
SyncMail(p, outcome) ==
    /\ proc[p].pc = "sync_mail"
    /\ LET m     == proc[p].masterOrderId
           posts == m \in DOMAIN masterOrders /\ HasUserEmail(m) /\ BackendUrlConfigured
           lost  == posts /\ outcome # "accepted"
       IN /\ customerEmails' = IF posts
                               THEN [customerEmails EXCEPT ![m] = @ + 1]
                               ELSE customerEmails
          /\ IF lost /\ ~ CatchesNotificationError
             THEN proc' = [proc EXCEPT ![p] = Returned("raised", <<>>)] /\ UNCHANGED lastDone
             ELSE Return(p)
    /\ UNCHANGED <<subOrders, masterOrders, products, clock, seenUnanimous, decrements>>

----------------------------------------------------------------------------
(* The order workflow as a whole *)

NextOrders ==
    /\ UNCHANGED <<feedVars, dispatchVars, clientVars>>
    /\ \E p \in Procs :
        \/ \E s \in SubIdInputs, in \in UpdateInputs : StartUpdate(p, s, in[1], in[2])
        \/ \E m \in MasterIdInputs : StartSync(p, m)
        \/ DecRead(p)
        \/ DecFinish(p)
        \/ UpdWrite(p)
        \/ \E outcome \in NotifyOutcomes : UpdNotify(p, outcome)
        \/ \E outcome \in NotifyOutcomes : UpdNotifyPayment(p, outcome)
        \/ SyncRead(p)
        \/ SyncWrite(p)
        \/ \E outcome \in MailOutcomes : SyncMail(p, outcome)

SpecOrders == InitOrders /\ [][NextOrders]_vars

\* concurrent callers of updateSubOrderStatus alone
NextUpdates ==
    /\ UNCHANGED <<feedVars, dispatchVars, clientVars>>
    /\ \E p \in Procs :
        \/ \E s \in SubIdInputs, in \in UpdateInputs : StartUpdate(p, s, in[1], in[2])
        \/ DecRead(p)
        \/ DecFinish(p)
        \/ UpdWrite(p)
        \/ \E outcome \in NotifyOutcomes : UpdNotify(p, outcome)
        \/ \E outcome \in NotifyOutcomes : UpdNotifyPayment(p, outcome)
        \/ SyncRead(p)
        \/ SyncWrite(p)
        \/ \E outcome \in MailOutcomes : SyncMail(p, outcome)

SpecUpdates == InitOrders /\ [][NextUpdates]_vars

InitStock ==
    /\ InitStores
    /\ InitTrigger
    /\ products \in [ProductIds -> 0..MaxStock]

\* the Stock Ledger called directly, by concurrent callers
NextStock ==
    /\ UNCHANGED <<feedVars, dispatchVars, clientVars>>
    /\ \E p \in Procs :
        \/ \E items \in ItemLists : StartDecrement(p, items)
        \/ DecRead(p)
        \/ DecFinish(p)
        \/ \E pid \in ProductInputs, q \in 1..MaxStock : StartDecrementOne(p, pid, q)
        \/ OneRead(p)
        \/ OneWrite(p)

SpecStock == InitStock /\ [][NextStock]_vars

\* the same calls made one after the other: a call starts only when no other is in flight
AllIdle == \A q \in Procs : proc[q].pc = "idle"

NextOrdersSeq ==
    /\ UNCHANGED <<feedVars, dispatchVars, clientVars>>
    /\ \E p \in Procs :
        \/ AllIdle /\ \E s \in SubIdInputs, in \in UpdateInputs : StartUpdate(p, s, in[1], in[2])
        \/ AllIdle /\ \E m \in MasterIdInputs : StartSync(p, m)
        \/ DecRead(p)
        \/ DecFinish(p)
        \/ UpdWrite(p)
        \/ \E outcome \in NotifyOutcomes : UpdNotify(p, outcome)
        \/ \E outcome \in NotifyOutcomes : UpdNotifyPayment(p, outcome)
        \/ SyncRead(p)
        \/ SyncWrite(p)
        \/ \E outcome \in MailOutcomes : SyncMail(p, outcome)

SpecOrdersSeq == InitOrders /\ [][NextOrdersSeq]_vars

\* await updateDoc(subOrderRef, updateData) rejects: the catch of updateSubOrderStatus
\* throws 'Failed to update order status'
UpdWriteFails(p) ==
    /\ proc[p].pc = "upd_write"
    /\ proc' = [proc EXCEPT ![p] = Returned("raised", <<>>)]
    /\ UNCHANGED <<subOrders, masterOrders, products, clock, customerEmails,
                   seenUnanimous, lastDone, decrements>>

\* await updateDoc(masterOrderRef, updateData) rejects: the catch of syncMasterOrderStatus
\* throws 'Failed to sync master order status', which updateSubOrderStatus rethrows
SyncWriteFails(p) ==
    /\ proc[p].pc = "sync_write"
    /\ proc' = [proc EXCEPT ![p] = Returned("raised", <<>>)]
    /\ UNCHANGED <<subOrders, masterOrders, products, clock, customerEmails,
                   seenUnanimous, lastDone, decrements>>

\* the calls made one after the other, against a store that may reject a write
NextOrdersFaulty ==
    /\ UNCHANGED <<feedVars, dispatchVars, clientVars>>
    /\ \E p \in Procs :
        \/ AllIdle /\ \E s \in SubIdInputs, in \in UpdateInputs : StartUpdate(p, s, in[1], in[2])
        \/ AllIdle /\ \E m \in MasterIdInputs : StartSync(p, m)
        \/ DecRead(p)
        \/ DecFinish(p)
        \/ UpdWrite(p)
        \/ UpdWriteFails(p)
        \/ \E outcome \in NotifyOutcomes : UpdNotify(p, outcome)
        \/ \E outcome \in NotifyOutcomes : UpdNotifyPayment(p, outcome)
        \/ SyncRead(p)
        \/ SyncWrite(p)
        \/ SyncWriteFails(p)
        \/ \E outcome \in MailOutcomes : SyncMail(p, outcome)

SpecOrdersFaulty == InitOrders /\ [][NextOrdersFaulty]_vars

----------------------------------------------------------------------------
(* Change-Feed Listener: OrderNotificationTrigger *)

\* `${orderData.id}-${orderData.status}-${orderData.paymentStatus}`, as its parts between '-'
OrderKey(c) == c.orderId \o <<c.status>> \o <<c.paymentStatus>>

\* orderKey.split('-')[0], as an id
KeyOrderId(orderKey) == <<orderKey[1]>>

\* mutant: the lookup never finds an entry
CheckIfAlreadyProcessed_Never(orderKey, f, logs) == FALSE

\* checkIfAlreadyProcessed: a notificationLogs entry for the key's order id and the
\* supplier, of eventType new_order or status_update, exists
CheckIfAlreadyProcessed(orderKey, f, logs) ==
    \E l \in logs : /\ l.orderId = KeyOrderId(orderKey)
                    /\ l.fournisseurId = f
                    /\ l.eventType \in {"new_order", "status_update"}

\* markAsProcessed: the document added to processedOrderStates
ProcessedState(orderKey, f, docId) ==
    [orderId |-> orderKey[1], status |-> orderKey[2], paymentStatus |-> orderKey[3],
     fournisseurId |-> f, id |-> docId]

\* logNotificationEvent: the document added to notificationLogs
LogEntry(c, eventType, notificationStatus, docId) ==
    [orderId |-> c.orderId, fournisseurId |-> FournisseurOf(c.orderId),
     orderStatus |-> c.status, paymentStatus |-> c.paymentStatus,
     eventType |-> eventType, notificationStatus |-> notificationStatus, id |-> docId]

\* mutant: every change is logged as a new order
EventType_AlwaysNew(type) == "new_order"

\* change.type === 'added' ? 'new_order' : 'status_update'
EventType(type) == IF type = "added" THEN "new_order" ELSE "status_update"

\* mutant: the throttle test is missing
Throttled_Never(currentTime, last) == FALSE

\* currentTime - lastProcessed < 2000, lastProcessed = get(f) || 0
Throttled(currentTime, last) ==
    currentTime - (IF last = Absent THEN 0 ELSE last) < Cooldown

\* the batches the feed of supplier f delivers: changes of distinct sub-orders of f
Batches(f) ==
    {b \in SUBSET ChangeInputs :
        /\ b # {}
        /\ \A c \in b : FournisseurOf(c.orderId) = f
        /\ \A c, d \in b : c.orderId = d.orderId => c = d}

\* snapshot.docChanges() as a list
RECURSIVE AsList(_)
AsList(b) ==
    IF b = {} THEN <<>>
    ELSE LET c == CHOOSE x \in b : \A y \in b : x.orderId # y.orderId => x.orderId[1] # y.orderId[1]
         IN <<c>> \o AsList(b \ {c})

\* batch is history: the number of the first callback of the snapshot the change came in;
\* at is history: the time the snapshot came
NewTask(i, f, c) ==
    [sub |-> i, fournisseurId |-> f, change |-> c, pc |-> "check",
     success |-> FALSE, redeliveryOf |-> 0, batch |-> Len(tasks) + 1, at |-> now]

\* initializeOrderMonitoring(f): unsubscribe a recorded listener, subscribe, record it
InitializeOrderMonitoring(f) ==
    /\ LET existing == activeListeners[f]
           closed   == IF existing # 0
                       THEN [subs EXCEPT ![existing] = [@ EXCEPT !.live = FALSE]]
                       ELSE subs
       IN /\ subs' = Append(closed, [fournisseurId |-> f, live |-> TRUE, cancelled |-> FALSE,
                                    droppedAt |-> Absent])
          /\ activeListeners' = [activeListeners EXCEPT ![f] = Len(subs) + 1]
    /\ UNCHANGED <<lastProcessedTimestamp, now, tasks, notificationLogs,
                   processedOrderStates, mailSends, notifications, dropped>>
    /\ UNCHANGED <<ordersVars, dispatchVars, clientVars>>

\* mutant: the throttle timestamp is left in place
CleanupSupplierData_Keeps(timestamps, f) == timestamps

\* cleanupSupplierData(f): this.lastProcessedTimestamp.delete(f); processedOrders is empty
CleanupSupplierData(timestamps, f) == [timestamps EXCEPT ![f] = Absent]

\* the cancel function initializeOrderMonitoring returned for subscription i
Cancel(i) ==
    /\ i \in DOMAIN subs
    /\ LET f == subs[i].fournisseurId
       IN /\ subs' = [subs EXCEPT ![i] = [@ EXCEPT !.live = FALSE, !.cancelled = TRUE]]
          /\ activeListeners' = [activeListeners EXCEPT ![f] = 0]
          /\ lastProcessedTimestamp' = CleanupSupplierData(lastProcessedTimestamp, f)
    /\ UNCHANGED <<now, tasks, notificationLogs, processedOrderStates, mailSends,
                   notifications, dropped>>
    /\ UNCHANGED <<ordersVars, dispatchVars, clientVars>>

\* cleanup(): unsubscribe every recorded listener, clear the maps
Cleanup ==
    /\ subs' = [i \in DOMAIN subs |->
                  IF activeListeners[subs[i].fournisseurId] = i
                  THEN [subs[i] EXCEPT !.live = FALSE]
                  ELSE subs[i]]
    /\ activeListeners' = [f \in Suppliers |-> 0]
    /\ lastProcessedTimestamp' = [f \in Suppliers |-> Absent]
    /\ UNCHANGED <<now, tasks, notificationLogs, processedOrderStates, mailSends,
                   notifications, dropped>>
    /\ UNCHANGED <<ordersVars, dispatchVars, clientVars>>

\* a second passes
Tick ==
    /\ now < Cooldown + MaxTicks
    /\ now' = now + 1
    /\ UNCHANGED <<subs, activeListeners, lastProcessedTimestamp, tasks, notificationLogs,
                   processedOrderStates, mailSends, notifications, dropped>>
    /\ UNCHANGED <<ordersVars, dispatchVars, clientVars>>

\* the changes delivered so far, with those of batch b
Delivered(b) == Len(tasks) + dropped + Cardinality(b)

\* mutant: the throttle timestamp is set for a dropped batch too
TimestampAfter_Always(last, currentTime, throttled) == currentTime

\* if (throttled) return; this.lastProcessedTimestamp.set(fournisseurId, currentTime)
TimestampAfter(last, currentTime, throttled) == IF throttled THEN last ELSE currentTime

\* the snapshot callback of subscription i, called with batch b
Deliver(i, b) ==
    /\ i \in DOMAIN subs
    /\ subs[i].live
    /\ b \in Batches(subs[i].fournisseurId)
    /\ LET f == subs[i].fournisseurId
           throttled == Throttled(now, lastProcessedTimestamp[f])
       IN /\ lastProcessedTimestamp' =
                [lastProcessedTimestamp EXCEPT ![f] = TimestampAfter(@, now, throttled)]
          /\ IF throttled
             THEN /\ dropped' = dropped + Cardinality(b)
                  /\ subs' = [subs EXCEPT ![i].droppedAt = now]
                  /\ UNCHANGED tasks
             ELSE /\ tasks' = tasks \o
                               [k \in 1..Cardinality(b) |-> NewTask(i, f, AsList(b)[k])]
                  /\ UNCHANGED <<dropped, subs>>
    /\ UNCHANGED <<activeListeners, now, notificationLogs, processedOrderStates,
                   mailSends, notifications>>
    /\ UNCHANGED <<ordersVars, dispatchVars, clientVars>>

\* await this.checkIfAlreadyProcessed(orderKey, fournisseurId)
TaskCheck(t) ==
    /\ t \in DOMAIN tasks
    /\ tasks[t].pc = "check"
    /\ LET key   == OrderKey(tasks[t].change)
           found == CheckIfAlreadyProcessed(key, tasks[t].fournisseurId, notificationLogs)
           prior == {u \in DOMAIN tasks :
                       /\ u # t
                       /\ tasks[u].pc = "done"
                       /\ tasks[u].fournisseurId = tasks[t].fournisseurId
                       /\ OrderKey(tasks[u].change) = key}
       IN tasks' = [tasks EXCEPT ![t] =
                      [@ EXCEPT !.pc = IF found THEN "skipped" ELSE "mark",
                                !.redeliveryOf = IF prior = {} THEN 0
                                                 ELSE CHOOSE u \in prior : TRUE]]
    /\ UNCHANGED <<subs, activeListeners, lastProcessedTimestamp, now, notificationLogs,
                   processedOrderStates, mailSends, notifications, dropped>>
    /\ UNCHANGED <<ordersVars, dispatchVars, clientVars>>

\* await this.markAsProcessed(orderKey, fournisseurId)
TaskMark(t) ==
    /\ t \in DOMAIN tasks
    /\ tasks[t].pc = "mark"
    /\ processedOrderStates' = processedOrderStates \cup
         {ProcessedState(OrderKey(tasks[t].change), tasks[t].fournisseurId, t)}
    /\ tasks' = [tasks EXCEPT ![t] = [@ EXCEPT !.pc = "send"]]
    /\ UNCHANGED <<subs, activeListeners, lastProcessedTimestamp, now, notificationLogs,
                   mailSends, notifications, dropped>>
    /\ UNCHANGED <<ordersVars, dispatchVars, clientVars>>

\* mutant: a send that fails ends the callbacks of the other changes of its batch
TaskSend_AbortsSiblings(t, outcome) ==
    /\ t \in DOMAIN tasks
    /\ tasks[t].pc = "send"
    /\ mailSends' = mailSends
    /\ tasks' = [u \in DOMAIN tasks |->
                   IF u = t THEN [tasks[u] EXCEPT !.pc = "log", !.success = FALSE]
                   ELSE IF tasks[u].batch = tasks[t].batch /\ tasks[u].pc \notin {"done", "skipped"}
                        THEN [tasks[u] EXCEPT !.pc = "aborted"]
                        ELSE tasks[u]]
    /\ UNCHANGED <<subs, activeListeners, lastProcessedTimestamp, now, notificationLogs,
                   processedOrderStates, notifications, dropped>>
    /\ UNCHANGED <<ordersVars, dispatchVars, clientVars>>

\* await supplierEmailService.sendOrderNotification(orderData)
TaskSend(t, outcome) ==
    /\ t \in DOMAIN tasks
    /\ tasks[t].pc = "send"
    /\ LET c        == tasks[t].change
           template == c.status \in Status
           posted   == template /\ outcome \in {"accepted", "rejected"}
       IN /\ mailSends' = IF posted
                          THEN mailSends \cup {[orderId |-> c.orderId, status |-> c.status,
                                                paymentStatus |-> c.paymentStatus,
                                                orderNumber |->
                                                   MailOrderNumber(IdChars(c.orderId), now),
                                                id |-> t]}
                          ELSE mailSends
          /\ tasks' = [tasks EXCEPT ![t] =
                         [@ EXCEPT !.pc = "log",
                                   !.success = template /\ outcome = "accepted"]]
    /\ UNCHANGED <<subs, activeListeners, lastProcessedTimestamp, now, notificationLogs,
                   processedOrderStates, notifications, dropped>>
    /\ UNCHANGED <<ordersVars, dispatchVars, clientVars>>

\* await this.logNotificationEvent(orderData, eventType, success ? 'success' : 'failed')
TaskLog(t) ==
    /\ t \in DOMAIN tasks
    /\ tasks[t].pc = "log"
    /\ LET c == tasks[t].change
           n == Cardinality({l \in notificationLogs : l.id[1] = t})
       IN notificationLogs' = notificationLogs \cup
            {LogEntry(c, EventType(c.type),
                      IF tasks[t].success THEN "success" ELSE "failed", <<t, n + 1>>)}
    /\ tasks' = [tasks EXCEPT ![t] = [@ EXCEPT !.pc = "inapp"]]
    /\ UNCHANGED <<subs, activeListeners, lastProcessedTimestamp, now,
                   processedOrderStates, mailSends, notifications, dropped>>
    /\ UNCHANGED <<ordersVars, dispatchVars, clientVars>>

\* await this.createInAppNotification(orderData, change.type)
TaskInApp(t) ==
    /\ t \in DOMAIN tasks
    /\ tasks[t].pc = "inapp"
    /\ notifications' = notifications \cup
         {[orderId |-> tasks[t].change.orderId,
           fournisseurId |-> FournisseurOf(tasks[t].change.orderId),
           changeType |-> tasks[t].change.type,
           orderNumber |-> InAppOrderNumber(IdChars(tasks[t].change.orderId),
                                            tasks[t].change.type),
           id |-> t]}
    /\ tasks' = [tasks EXCEPT ![t] = [@ EXCEPT !.pc = "done"]]
    /\ UNCHANGED <<subs, activeListeners, lastProcessedTimestamp, now, notificationLogs,
                   processedOrderStates, mailSends, dropped>>
    /\ UNCHANGED <<ordersVars, dispatchVars, clientVars>>

NextFeed ==
    \/ \E f \in Suppliers : Len(subs) < MaxSubs /\ InitializeOrderMonitoring(f)
    \/ \E i \in 1..MaxSubs : Cancel(i)
    \/ Tick
    \/ \E i \in 1..MaxSubs, b \in SUBSET ChangeInputs :
          Delivered(b) <= MaxChanges /\ Deliver(i, b)
    \/ \E t \in 1..MaxChanges :
          \/ TaskCheck(t)
          \/ TaskMark(t)
          \/ \E outcome \in SendOutcomes : TaskSend(t, outcome)
          \/ TaskLog(t)
          \/ TaskInApp(t)

SpecFeed == InitOrders /\ [][NextFeed]_vars

\* the life of the listeners alone: subscribe, cancel and cleanup calls in any order
NextListeners ==
    \/ \E f \in Suppliers : Len(subs) < MaxListeners /\ InitializeOrderMonitoring(f)
    \/ \E i \in 1..MaxListeners : Cancel(i)
    \/ Cleanup
    \/ Tick

SpecListeners == InitOrders /\ [][NextListeners]_vars

\* a stream of batches to one subscription that is never cancelled
NextStream ==
    \/ \E f \in Suppliers : Len(subs) < 1 /\ InitializeOrderMonitoring(f)
    \/ Tick
    \/ \E i \in 1..MaxSubs, b \in SUBSET ChangeInputs :
          Delivered(b) <= MaxStream /\ Deliver(i, b)
    \/ \E t \in 1..MaxStream :
          \/ TaskCheck(t)
          \/ TaskMark(t)
          \/ \E outcome \in SendOutcomes : TaskSend(t, outcome)
          \/ TaskLog(t)
          \/ TaskInApp(t)

SpecStream == InitOrders /\ [][NextStream]_vars

\* every awaited store operation or HTTP call of a change callback completes, and the
\* event loop then runs the callback's continuation
TaskFairness ==
    \A t \in 1..MaxChanges :
       /\ WF_vars(TaskCheck(t))
       /\ WF_vars(TaskMark(t))
       /\ WF_vars(\E outcome \in SendOutcomes : TaskSend(t, outcome))
       /\ WF_vars(TaskLog(t))
       /\ WF_vars(TaskInApp(t))

\* the callbacks of the batches delivered within one second, no subscription cancelled
NextBatch ==
    \/ \E f \in Suppliers : Len(subs) < MaxSubs /\ InitializeOrderMonitoring(f)
    \/ \E i \in 1..MaxSubs, b \in SUBSET ChangeInputs :
          Delivered(b) <= MaxChanges /\ Deliver(i, b)
    \/ \E t \in 1..MaxChanges :
          \/ TaskCheck(t)
          \/ TaskMark(t)
          \/ \E outcome \in SendOutcomes : TaskSend(t, outcome)
          \/ TaskLog(t)
          \/ TaskInApp(t)

SpecBatch == InitOrders /\ [][NextBatch]_vars /\ TaskFairness

----------------------------------------------------------------------------
(* Notification Dispatcher: SupplierNotificationService.sendOrderNotification *)

\* the orders the dispatcher is called with: a status of the template table, a status
\* outside it, and a document without a status field
Order(o, st, ps) == [orderId |-> o, status |-> st, paymentStatus |-> ps]
OrderInputs == { Order(<<"O1">>, "pending", "pending"),
                 Order(<<"O2">>, "delivered", "paid"),
                 Order(<<"O1">>, "shipped", "pending"),
                 Order(<<"O2">>, None, "pending") }

\* getSupplierInfo: the contact record, or null (document or user missing, or a read failed)
SupplierInfoOutcomes == {"resolved", "null"}

\* generateEmailSubject: subjectTemplates[order.status] || `... COMMANDE #... - ${status}`
EmailSubject(status) == IF status \in Status THEN status ELSE "default"

\* generateComprehensiveEmailContent raises: order.status.toUpperCase() of a missing status
ContentRaises(order) == order.status = None

\* sendOrderNotification(order), up to its first await
SendOrderNotification(order) ==
    /\ Len(dispatches) < MaxDispatches
    /\ dispatches' = Append(dispatches,
                            [order |-> order, pc |-> "info", notificationStatus |-> None,
                             result |-> None])
    /\ UNCHANGED supplierNotificationLogs

\* const supplierInfo = await this.getSupplierInfo(order.fournisseurId); the content is
\* generated in the same turn
GetSupplierInfo(d, outcome) ==
    /\ d \in DOMAIN dispatches
    /\ dispatches[d].pc = "info"
    /\ dispatches' = [dispatches EXCEPT ![d] =
         IF outcome = "null"
         THEN [@ EXCEPT !.pc = "returned", !.result = "false"]
         ELSE IF ContentRaises(@.order)
              THEN [@ EXCEPT !.pc = "log", !.notificationStatus = "error"]
              ELSE [@ EXCEPT !.pc = "send"]]
    /\ UNCHANGED <<supplierNotificationLogs, mailSends, notifications>>

\* const success = await this.sendEmailViaBackend(...): the POST to /send-supplier-email
SendEmailViaBackend(d, outcome) ==
    /\ d \in DOMAIN dispatches
    /\ dispatches[d].pc = "send"
    /\ LET o == dispatches[d].order
       IN mailSends' = IF BackendUrlConfigured
                       THEN mailSends \cup {[orderId |-> o.orderId, status |-> o.status,
                                             paymentStatus |-> o.paymentStatus,
                                             subject |-> EmailSubject(o.status),
                                             orderNumber |-> OrderNumber(IdChars(o.orderId)),
                                             id |-> d]}
                       ELSE mailSends
    /\ dispatches' = [dispatches EXCEPT ![d] =
         IF BackendUrlConfigured /\ outcome = "accepted"
         THEN [@ EXCEPT !.pc = "inapp", !.notificationStatus = "success"]
         ELSE [@ EXCEPT !.pc = "log", !.notificationStatus = "failed"]]
    /\ UNCHANGED <<supplierNotificationLogs, notifications>>

\* await this.createInAppNotification(order, supplierInfo)
DispatchInApp(d) ==
    /\ d \in DOMAIN dispatches
    /\ dispatches[d].pc = "inapp"
    /\ notifications' = notifications \cup
         {[orderId |-> dispatches[d].order.orderId,
           fournisseurId |-> FournisseurOf(dispatches[d].order.orderId),
           changeType |-> None,
           orderNumber |-> OrderNumber(IdChars(dispatches[d].order.orderId)), id |-> d]}
    /\ dispatches' = [dispatches EXCEPT ![d] = [@ EXCEPT !.pc = "log"]]
    /\ UNCHANGED <<supplierNotificationLogs, mailSends>>

\* await this.logNotificationEvent(order, supplierInfo, status); return success
DispatchLog(d) ==
    /\ d \in DOMAIN dispatches
    /\ dispatches[d].pc = "log"
    /\ supplierNotificationLogs' = supplierNotificationLogs \cup
         {[orderId |-> dispatches[d].order.orderId,
           orderStatus |-> dispatches[d].order.status,
           notificationStatus |-> dispatches[d].notificationStatus, id |-> d]}
    /\ dispatches' = [dispatches EXCEPT ![d] =
         [@ EXCEPT !.pc = "returned",
                   !.result = IF dispatches[d].notificationStatus = "success"
                              THEN "true" ELSE "false"]]
    /\ UNCHANGED <<mailSends, notifications>>

\* the dispatcher called directly, by concurrent callers
NextDispatch ==
    /\ UNCHANGED <<ordersVars, subs, activeListeners, lastProcessedTimestamp, now, tasks,
                   notificationLogs, processedOrderStates, dropped, clientVars>>
    /\ \/ \E order \in OrderInputs :
             SendOrderNotification(order) /\ UNCHANGED <<mailSends, notifications>>
       \/ \E d \in 1..MaxDispatches :
             \/ \E outcome \in SupplierInfoOutcomes : GetSupplierInfo(d, outcome)
             \/ \E outcome \in MailOutcomes : SendEmailViaBackend(d, outcome)
             \/ DispatchInApp(d)
             \/ DispatchLog(d)

SpecDispatch == InitOrders /\ [][NextDispatch]_vars

----------------------------------------------------------------------------
(* Client EmailService: initialize, sendTestEmail, sendOrderNotification *)

\* the keys of ORDER_STATUS_TEMPLATES
ORDER_STATUS_TEMPLATES ==
    {"pending", "confirmed", "preparing", "out_for_delivery", "delivered", "cancelled"}

\* the status of the order a notification is asked for: one with a template, one without
ClientStatusInputs == {"confirmed", "shipped"}

\* the reply of the mail relay to a request: response.ok, a status that is not ok, or
\* a fetch that rejects
RelayOutcomes == {"ok", "notok", "unreachable"}

NewClientCall(op, status, pc) == [op |-> op, status |-> status, pc |-> pc, result |-> None]

\* initialize() goes on to the health check: if (isInitialized || isInitializing) return
StartsHealthCheck(initialized, initializing) == ~ (initialized \/ initializing)

\* sendOrderNotification after 'if (!this.isInitialized) await this.initialize()': it
\* returns false when the service is not initialized or the status has no template, and
\* posts to /send-email otherwise
AfterInitialize(call, initialized) ==
    IF ~ initialized
    THEN [call EXCEPT !.pc = "done", !.result = "false"]
    ELSE IF call.status \notin ORDER_STATUS_TEMPLATES
         THEN [call EXCEPT !.pc = "done", !.result = "false"]
         ELSE [call EXCEPT !.pc = "post"]

\* the POSTs after call c went on as record call
PostsAfter(c, call) ==
    IF call.pc = "post"
    THEN emailPosts \cup {[call |-> c, endpoint |-> "/send-email", status |-> call.status]}
    ELSE emailPosts

\* initialize() called by the application: up to the fetch of /health
Initialize ==
    /\ IF StartsHealthCheck(isInitialized, isInitializing)
       THEN /\ isInitializing' = TRUE
            /\ clientCalls' = Append(clientCalls, NewClientCall("initialize", None, "health"))
       ELSE /\ UNCHANGED isInitializing
            /\ clientCalls' = Append(clientCalls,
                                     [NewClientCall("initialize", None, "done")
                                         EXCEPT !.result = "void"])
    /\ UNCHANGED <<isInitialized, emailPosts, relayFailed>>
    /\ UNCHANGED <<ordersVars, feedVars, dispatchVars>>

\* sendOrderNotification(orderData): up to its first fetch.  When initialize() returns at
\* once the continuation runs before any reply of the relay is handled, so it is part of
\* this step.
ClientSendOrderNotification(status) ==
    LET c    == Len(clientCalls) + 1
        call == NewClientCall("sendOrderNotification", status, "start")
    IN /\ IF ~ isInitialized /\ StartsHealthCheck(isInitialized, isInitializing)
          THEN /\ isInitializing' = TRUE
               /\ clientCalls' = Append(clientCalls, [call EXCEPT !.pc = "health"])
               /\ UNCHANGED emailPosts
          ELSE /\ clientCalls' = Append(clientCalls, AfterInitialize(call, isInitialized))
               /\ emailPosts' = PostsAfter(c, AfterInitialize(call, isInitialized))
               /\ UNCHANGED isInitializing
       /\ UNCHANGED <<isInitialized, relayFailed>>
       /\ UNCHANGED <<ordersVars, feedVars, dispatchVars>>

\* sendTestEmail(toEmail): sets isInitialized and posts to /send-test-email
SendTestEmail ==
    /\ isInitialized' = TRUE
    /\ clientCalls' = Append(clientCalls, NewClientCall("sendTestEmail", None, "post"))
    /\ emailPosts' = emailPosts \cup {[call |-> Len(clientCalls) + 1,
                                       endpoint |-> "/send-test-email", status |-> None]}
    /\ UNCHANGED <<isInitializing, relayFailed>>
    /\ UNCHANGED <<ordersVars, feedVars, dispatchVars>>

\* the reply to the GET /health of call c: the rest of initialize(), and of the
\* sendOrderNotification that awaited it up to its POST
HealthReply(c, outcome) ==
    /\ c \in DOMAIN clientCalls
    /\ clientCalls[c].pc = "health"
    /\ isInitialized' = (outcome = "ok")
    /\ isInitializing' = FALSE
    /\ relayFailed' = (relayFailed \/ outcome # "ok")
    /\ LET call == IF clientCalls[c].op = "initialize"
                   THEN [clientCalls[c] EXCEPT !.pc = "done", !.result = "void"]
                   ELSE AfterInitialize(clientCalls[c], outcome = "ok")
       IN /\ clientCalls' = [clientCalls EXCEPT ![c] = call]
          /\ emailPosts' = PostsAfter(c, call)
    /\ UNCHANGED <<ordersVars, feedVars, dispatchVars>>

\* the reply to the POST of call c: true when resp.ok, false otherwise
PostReply(c, outcome) ==
    /\ c \in DOMAIN clientCalls
    /\ clientCalls[c].pc = "post"
    /\ clientCalls' = [clientCalls EXCEPT ![c] =
                          [@ EXCEPT !.pc = "done",
                                    !.result = IF outcome = "ok" THEN "true" ELSE "false"]]
    /\ relayFailed' = (relayFailed \/ outcome # "ok")
    /\ UNCHANGED <<isInitialized, isInitializing, emailPosts>>
    /\ UNCHANGED <<ordersVars, feedVars, dispatchVars>>

\* the client EmailService called by concurrent callers
NextClient ==
    \/ Len(clientCalls) < MaxClientCalls /\ Initialize
    \/ \E status \in ClientStatusInputs :
          Len(clientCalls) < MaxClientCalls /\ ClientSendOrderNotification(status)
    \/ Len(clientCalls) < MaxClientCalls /\ SendTestEmail
    \/ \E c \in 1..MaxClientCalls, outcome \in RelayOutcomes :
          \/ HealthReply(c, outcome)
          \/ PostReply(c, outcome)

SpecClient == InitOrders /\ [][NextClient]_vars

-----------------------------------------------------------------------------
(* Properties of the order workflow *)

\* the step is taken by process p
Acting(p) == proc'[p] # proc[p]

\* the values of xs are not all equal
Mixed(xs) == \E i, j \in DOMAIN xs : xs[i] # xs[j]

\* the children of master m as the store holds them now, by createdAt
ChildStatuses(m) == [i \in DOMAIN SubOrdersOfMaster(m) |-> subOrders[SubOrdersOfMaster(m)[i]].status]
ChildPayments(m) ==
    [i \in DOMAIN SubOrdersOfMaster(m) |-> subOrders[SubOrdersOfMaster(m)[i]].paymentStatus]

InSync(p) == proc[p].pc \in {"sync_read", "sync_write", "sync_mail"}

\* the statuses the sync of p works on: those in the store while it has yet to read,
\* those it read afterwards
SyncStatuses(p) ==
    IF proc[p].pc = "sync_read" THEN ChildStatuses(proc[p].masterOrderId) ELSE proc[p].statuses
SyncPayments(p) ==
    IF proc[p].pc = "sync_read" THEN ChildPayments(proc[p].masterOrderId)
    ELSE proc[p].paymentStatuses

\* C1: a sync whose sub-orders do not all share one status leaves the master's status as it
\* was, at each of its steps, also when it writes the master because the paymentStatus
\* values are unanimous.
C1_MixedStatusLeavesMasterStatus ==
    [][\A p \in Procs :
         (Acting(p) /\ InSync(p) /\ Mixed(SyncStatuses(p)))
            => \A m \in MasterIds : masterOrders'[m].status = masterOrders[m].status]_vars

\* a sync has written the master (unanimous paymentStatus) with mixed statuses
C1_Witness ==
    \E p \in Procs : /\ proc[p].pc = "sync_mail"
                      /\ Mixed(proc[p].statuses)
                      /\ ~Mixed(proc[p].paymentStatuses)

C3_MasterStatusInitialOrUnanimous ==
    \A m \in MasterIds :
        \/ masterOrders[m].status = FreshOrder.status
        \/ <<m, masterOrders[m].status>> \in seenUnanimous

\* the master shows an earlier unanimous status while its sub-orders now disagree
C3_Witness ==
    /\ masterOrders["M1"].status # FreshOrder.status
    /\ Mixed(ChildStatuses("M1"))

\* the lines of p's decrement read so far that fail validation
FailingLines(p) ==
    {i \in DOMAIN proc[p].reads :
        proc[p].reads[i] = -1 \/ proc[p].reads[i] < proc[p].items[i].quantity}

\* C4: a decrementMultipleProductsStock call one of whose lines names a missing product or
\* asks for more than the stock it read changes no stockQuantity at any of its steps and
\* returns success=false with one error per failing line.
C4_FailingBatchWritesNothing ==
    [][\A p \in Procs :
         (Acting(p) /\ proc[p].pc \in {"dec_read", "dec_finish"} /\ FailingLines(p) # {})
            => /\ products' = products
               /\ proc[p].pc = "dec_finish" =>
                    /\ proc[p].op = "decrement" =>
                          /\ proc'[p].result = "failure"
                          /\ Len(proc'[p].errors) = Cardinality(FailingLines(p))
                          /\ \A i \in FailingLines(p) :
                                \E j \in DOMAIN proc'[p].errors :
                                    proc'[p].errors[j][2] = proc[p].items[i].productId
                    /\ proc[p].op = "update" => ~proc'[p].stockOk]_vars

\* a call has failed on its line for B alone, the line for A having passed validation
C4_Witness ==
    \E p \in Procs : /\ proc[p].result = "failure"
                      /\ proc[p].errors = << <<"insufficient", "B">> >>
                      /\ products["A"] >= 1

\* C5: updateSubOrderStatus invokes the Stock Ledger if and only if the new status is
\* out_for_delivery and the status stored when the call read the sub-order is not; nothing
\* else in the workflow invokes it.
C5_DecrementIffEnteringDelivery ==
    [][\A p \in Procs :
         /\ (proc[p].pc = "idle" /\ proc'[p].op = "update")
               => (proc'[p].pc = "dec_read"
                     <=> /\ proc'[p].status = "out_for_delivery"
                         /\ subOrders[proc'[p].subOrderId].status # "out_for_delivery")
         /\ (proc'[p].pc = "dec_read" /\ proc[p].pc # "dec_read") => proc[p].pc = "idle"]_vars

\* a call asking for out_for_delivery on a sub-order already out_for_delivery has gone
\* on to its status write
C5_Witness ==
    \E p \in Procs : /\ proc[p].op = "update"
                      /\ proc[p].status = "out_for_delivery"
                      /\ proc[p].previousStatus = "out_for_delivery"
                      /\ proc[p].pc = "upd_write"

\* C6: of two updateSubOrderStatus(S, out_for_delivery) calls in sequence, the second
\* never enters the Stock Ledger and none of its steps changes a stockQuantity; when
\* they are the first two calls made, S's items have been decremented exactly once.
C6_SecondCallWritesNoStock ==
    /\ [][\A p \in Procs :
            (Acting(p) /\ proc[p].repeat)
               => products' = products /\ decrements' = decrements]_vars
    /\ [](\A p \in Procs :
            proc[p].repeat
               => /\ proc[p].pc \notin {"dec_read", "dec_finish"}
                  /\ clock = 2 => decrements[proc[p].subOrderId] = 1)

\* the second call has written the status and goes on to the sync
C6_Witness ==
    \E p \in Procs : proc[p].repeat /\ proc[p].pc = "sync_read" /\ clock = 2

\* C7: the items of a sub-order are decremented at most once over its lifetime, for any
\* sequence of updateSubOrderStatus calls.
C7_AtMostOneDecrementPerSubOrder ==
    \A s \in SubIds : decrements[s] <= 1

----------------------------------------------------------------------------
(* Properties of the change-feed listener *)

\* the deliveries t and u carry the same (orderId, status, paymentStatus) for one supplier
SameChange(t, u) ==
    /\ OrderKey(tasks[t].change) = OrderKey(tasks[u].change)
    /\ tasks[t].fournisseurId = tasks[u].fournisseurId

\* the NotificationLogEntries and the mail-send invocations made for the deliveries in ts
LogsOf(ts) == {l \in notificationLogs : l.id[1] \in ts}
SendsOf(ts) == {m \in mailSends : m.id \in ts}

\* the delivery has called the dispatcher
Dispatched(t) == tasks[t].pc \in {"log", "inapp", "done"}

\* C8: a change delivered again, in a later batch that passed the throttle, after the
\* handling of an earlier delivery of the same (orderId, status, paymentStatus) for the
\* supplier has completed: both deliveries together leave exactly one NotificationLogEntry
\* and at most one mail-send invocation.
C8_RedeliveryOneLogOneSend ==
    \A t \in DOMAIN tasks :
        tasks[t].redeliveryOf # 0 =>
            /\ Cardinality(LogsOf({t, tasks[t].redeliveryOf})) = 1
            /\ Cardinality(SendsOf({t, tasks[t].redeliveryOf})) <= 1

\* a re-delivery was looked up and skipped, the earlier delivery having sent its mail
C8_Witness ==
    \E t \in DOMAIN tasks :
        /\ tasks[t].redeliveryOf # 0
        /\ tasks[t].pc = "skipped"
        /\ SameChange(t, tasks[t].redeliveryOf)
        /\ Cardinality(SendsOf({tasks[t].redeliveryOf})) = 1

\* C9: of two deliveries of the same change whose check, mark and dispatch steps
\* interleave, at most one calls the dispatcher.
C9_AtMostOneConcurrentDispatch ==
    \A t, u \in DOMAIN tasks :
        (t # u /\ SameChange(t, u)) => ~ (Dispatched(t) /\ Dispatched(u))

\* the Idempotency Ledger holds an entry for exactly the state the change carries
LedgerHolds(c, f) ==
    \E e \in processedOrderStates :
        /\ <<e.orderId>> = c.orderId
        /\ e.status = c.status
        /\ e.paymentStatus = c.paymentStatus
        /\ e.fournisseurId = f

\* C10: the lookup of a change that passed the throttle skips it if and only if the
\* Idempotency Ledger holds an entry for exactly its (orderId, status, paymentStatus).
C10_SkippedIffLedgerHoldsExactState ==
    [][\A t \in DOMAIN tasks :
          (tasks[t].pc = "check" /\ tasks'[t].pc # "check")
              => (tasks'[t].pc = "skipped"
                    <=> LedgerHolds(tasks[t].change, tasks[t].fournisseurId))]_vars

\* the deliveries started for supplier f
TasksOf(ts, f) == {t \in DOMAIN ts : ts[t].fournisseurId = f}

\* less than the cooldown has passed since a batch of supplier f was last processed
InCooldown(f) ==
    /\ lastProcessedTimestamp[f] # Absent
    /\ now - lastProcessedTimestamp[f] < Cooldown

----------------------------------------------------------------------------
(* Properties of the workflow end to end *)

\* updateSubOrderStatus(S1, confirmed) and then updateSubOrderStatus(S2, confirmed) have
\* been made and have returned, on sub-orders that were pending with one paymentStatus
BothConfirmedInTurn ==
    /\ AllIdle
    /\ clock = 2
    /\ lastDone = [s \in SubIds |-> "confirmed"]
    /\ subOrders["S1"].updatedAt = 1
    /\ subOrders["S2"].updatedAt = 2
    /\ \A s \in SubIds : subOrders[s].paymentStatus = "pending"

\* C12: after updateSubOrderStatus(S1, confirmed), then updateSubOrderStatus(S2, confirmed)
\* (and a re-delivery of S2's change, which sends no customer email), exactly one customer
\* notification email has been sent for the master order.
C12_OneCustomerEmailForScenario ==
    BothConfirmedInTurn => customerEmails["M1"] = 1

----------------------------------------------------------------------------
(* Properties of the Stock Ledger under concurrent callers *)

\* C13: the stockQuantity of every product is at least 0 in every reachable state, under
\* any interleaving of decrementProductStock and decrementMultipleProductsStock calls.
C13_StockNeverNegative ==
    \A pid \in ProductIds : products[pid] >= 0

\* a single and a batch decrement have both written, and a product is sold out
C13_Witness ==
    /\ \E p, q \in Procs : proc[p].result = "true" /\ proc[q].result = "success"
    /\ \E pid \in ProductIds : products[pid] = 0

----------------------------------------------------------------------------
(* Properties of updateSubOrderStatus when a step of it fails *)

SyncPcs == {"sync_read", "sync_write", "sync_mail"}

\* C14: when the Stock Ledger returns success = false during
\* updateSubOrderStatus(S, out_for_delivery), the call goes on to write S's status as
\* out_for_delivery, then runs the master sync, and no step of it raises.
C14_StockFailureNotFatal ==
    [][\A p \in Procs :
         (Acting(p) /\ proc[p].op = "update") =>
            /\ (proc[p].pc = "dec_finish" /\ AbortsBatch(proc[p].errors))
                  => (proc'[p].pc = "upd_write" /\ ~ proc'[p].stockOk)
            /\ ~ proc[p].stockOk =>
                  /\ proc'[p].result # "raised"
                  /\ proc[p].pc \in {"upd_write", "upd_notify", "upd_notify_pay"} \cup SyncPcs
                  /\ proc[p].pc = "upd_write" =>
                        /\ subOrders'[proc[p].subOrderId].status = "out_for_delivery"
                        /\ proc'[p].pc = AfterWrite(proc[p])
                  /\ proc[p].pc \in {"upd_notify", "upd_notify_pay"} =>
                        proc'[p].pc \in {"upd_notify_pay", "sync_read"}
                  /\ proc[p].pc \in SyncPcs =>
                        \/ proc'[p].pc \in SyncPcs
                        \/ proc'[p].result = "ok"]_vars

\* a call whose decrement failed has written out_for_delivery and its sync has written
\* the master
C14_Witness ==
    \E p \in Procs :
        /\ ~ proc[p].stockOk
        /\ proc[p].pc = "sync_mail"
        /\ proc[p].status = "out_for_delivery"
        /\ subOrders[proc[p].subOrderId].status = "out_for_delivery"

NotifyPcs == {"upd_notify", "upd_notify_pay", "sync_mail"}

\* C15: a step that creates the in-app notification or sends the customer email, failing
\* or not, raises nothing and writes to no store; after a failed notification the call
\* leaves the sub-order as written, goes on to the master sync, whose write is made, and
\* returns without raising.
C15_NotificationFailureNotFatal ==
    [][\A p \in Procs :
         (Acting(p) /\ proc[p].op \in {"update", "sync"}) =>
            /\ proc[p].pc \in NotifyPcs =>
                  /\ proc'[p].result # "raised"
                  /\ UNCHANGED <<subOrders, masterOrders, products>>
            /\ proc[p].pc = "upd_notify" => proc'[p].pc = AfterNotify(proc[p])
            /\ proc[p].pc = "upd_notify_pay" => proc'[p].pc = "sync_read"
            /\ proc[p].pc = "sync_mail" => proc'[p].result = "ok"
            /\ proc[p].failed =>
                  /\ proc'[p].result # "raised"
                  /\ subOrders' = subOrders
                  /\ proc[p].pc \in NotifyPcs \cup SyncPcs
                  /\ (proc[p].pc = "sync_read"
                        /\ UpdatesMaster(AllSame(ChildStatuses(proc[p].masterOrderId)),
                                         AllSame(ChildPayments(proc[p].masterOrderId))))
                       => proc'[p].pc = "sync_write"
                  /\ proc[p].pc = "sync_write" =>
                       /\ proc'[p].pc = "sync_mail"
                       /\ masterOrders'[proc[p].masterOrderId] =
                            MasterOrderUpdate(masterOrders[proc[p].masterOrderId],
                                              proc[p].statuses, proc[p].paymentStatuses, clock)]_vars

\* a call whose notification failed has its status persisted and its sync has written the
\* master's status
C15_Witness ==
    \E p \in Procs :
        /\ proc[p].failed
        /\ proc[p].pc = "sync_mail"
        /\ subOrders[proc[p].subOrderId].status = proc[p].status
        /\ masterOrders[proc[p].masterOrderId].status = proc[p].status
        /\ proc[p].status # "pending"

\* C16: updateSubOrderStatus for a sub-order id that does not exist raises no error to
\* its caller.
C16_MissingSubOrderNotRaised ==
    \A p \in Procs :
        (proc[p].pc = "idle" /\ proc[p].subOrderId \in SubIdInputs \ SubIds)
            => proc[p].result # "raised"

----------------------------------------------------------------------------
(* Properties of concurrent calls *)

\* C17: once all concurrent updateSubOrderStatus calls on the sub-orders of a master have
\* completed, if the sub-orders share one status the master's status equals it, and
\* likewise for paymentStatus.
C17_MasterFollowsChildrenAtRest ==
    AllIdle =>
        \A m \in MasterIds :
            /\ AllSame(ChildStatuses(m)) => masterOrders[m].status = ChildStatuses(m)[1]
            /\ AllSame(ChildPayments(m)) => masterOrders[m].paymentStatus = ChildPayments(m)[1]

----------------------------------------------------------------------------
(* Properties of the listener's teardown *)

\* the deliveries started by the callback of subscription i
TasksBySub(ts, i) == {t \in DOMAIN ts : ts[t].sub = i}

\* C18: when the cancel function of a subscription of supplier f returns, the subscription
\* is closed and neither a listener entry nor a throttle timestamp is held for f; a closed
\* subscription stays closed and its callback is not invoked again.
C18_CancelClosesAndPurges ==
    [][\A i \in DOMAIN subs :
         LET f == subs[i].fournisseurId
         IN /\ (subs'[i].cancelled /\ ~ subs[i].cancelled) =>
                  /\ ~ subs'[i].live
                  /\ activeListeners'[f] = 0
                  /\ lastProcessedTimestamp'[f] = Absent
            /\ subs[i].cancelled => ~ subs[i].live
            /\ ~ subs[i].live =>
                  /\ ~ subs'[i].live
                  /\ TasksBySub(tasks', i) = TasksBySub(tasks, i)
            /\ (\A j \in DOMAIN subs : ~ subs[j].live) => dropped' = dropped]_vars

\* a subscription that processed a batch was cancelled, and time has passed since
C18_Witness ==
    \E i \in DOMAIN subs :
        /\ subs[i].cancelled
        /\ TasksBySub(tasks, i) # {}
        /\ lastProcessedTimestamp[subs[i].fournisseurId] = Absent
        /\ now > Cooldown

----------------------------------------------------------------------------
(* Properties of concurrent decrements *)

\* C19: two concurrent updateSubOrderStatus(S, out_for_delivery) calls on a sub-order not
\* yet out_for_delivery (the only two calls made) decrement the stock of S's items once.
C19_ConcurrentDeliveryDecrementsOnce ==
    clock <= 2 => \A s \in SubIds : decrements[s] <= 1

\* line i is the last line of items that names its product: the one whose value the
\* batch leaves in the store
LastLineOf(items, i) ==
    \A k \in DOMAIN items : k > i => items[k].productId # items[i].productId

\* two calls of decrementMultipleProductsStock, the only calls made, have both returned
\* success, and line i of p and line j of q name one product and read the same stock of
\* it: both read before either wrote
RacedOn(p, i, q, j) ==
    /\ p # q
    /\ clock = 2
    /\ proc[p].result = "success" /\ proc[q].result = "success"
    /\ i \in DOMAIN proc[p].items /\ j \in DOMAIN proc[q].items
    /\ proc[p].items[i].productId = proc[q].items[j].productId
    /\ LastLineOf(proc[p].items, i) /\ LastLineOf(proc[q].items, j)
    /\ proc[p].reads[i] = proc[q].reads[j]

\* C20: when two decrement calls on one product both read its stock before either
\* writes, both return success and the stock ends reduced by one of the two quantities
\* only, not by both.
C20_RacingDecrementsLoseOne ==
    \A p, q \in Procs : \A i, j \in 1..2 :
        RacedOn(p, i, q, j) =>
            products[proc[p].items[i].productId] \in
                { proc[p].reads[i] - proc[p].items[i].quantity,
                  proc[q].reads[j] - proc[q].items[j].quantity }

\* the two calls raced on product B with different quantities
C20_Witness ==
    \E p, q \in Procs : \E i, j \in 1..2 :
        /\ RacedOn(p, i, q, j)
        /\ proc[p].items[i].quantity # proc[q].items[j].quantity
        /\ products[proc[p].items[i].productId]
              > proc[p].reads[i] - proc[p].items[i].quantity - proc[q].items[j].quantity

----------------------------------------------------------------------------
(* Properties of the Stock Ledger's result *)

\* the products the lines name
Named(items) == {items[k].productId : k \in DOMAIN items}

\* C21: when every line of decrementMultipleProductsStock(items) passed validation, the
\* call returns success with no error, and in that one step every named product's
\* stockQuantity becomes the stock read for it minus the requested quantity, and no other
\* product changes.
C21_PassingBatchWritesReadMinusQuantity ==
    [][\A p \in Procs :
         (Acting(p) /\ proc[p].op = "decrement" /\ proc[p].pc = "dec_finish"
            /\ proc[p].errors = <<>>) =>
              /\ proc'[p].result = "success"
              /\ proc'[p].errors = <<>>
              /\ \A k \in DOMAIN proc[p].items :
                    LastLineOf(proc[p].items, k) =>
                       products'[proc[p].items[k].productId]
                          = proc[p].reads[k] - proc[p].items[k].quantity
              /\ \A pid \in ProductIds \ Named(proc[p].items) :
                    products'[pid] = products[pid]]_vars

\* a batch of two products has been written: each is at what was read minus its quantity
C21_Witness ==
    \E p \in Procs :
        /\ proc[p].result = "success"
        /\ Cardinality(Named(proc[p].items)) = 2
        /\ \A k \in DOMAIN proc[p].items :
              products[proc[p].items[k].productId]
                 = proc[p].reads[k] - proc[p].items[k].quantity

----------------------------------------------------------------------------
(* Properties of the Notification Dispatcher *)

\* the supplierNotificationLogs entries call d wrote
DispatchLogsOf(d) == {l \in supplierNotificationLogs : l.id = d}

\* C22: every sendOrderNotification call that has returned wrote exactly one log entry,
\* whatever its outcome, an unresolved supplier contact included
C22_EachDispatchWritesOneLog ==
    \A d \in DOMAIN dispatches :
       dispatches[d].pc = "returned" => Cardinality(DispatchLogsOf(d)) = 1

\* C23: a sendOrderNotification call for an order whose status is outside the template
\* table makes no mail-send request, under no subject, and returns false
C23_UnknownStatusSendsNothing ==
    \A d \in DOMAIN dispatches :
       dispatches[d].order.status \notin Status =>
          /\ \A m \in mailSends : m.id # d
          /\ dispatches[d].pc = "returned" => dispatches[d].result = "false"

\* C24: every order number rendered in a supplier email or an in-app notification is the
\* trailing 8 characters of the order id in upper case (the whole id when it is shorter)
C24_OrderNumberIsUpperCasedTail ==
    /\ \A m \in mailSends :
          m.orderNumber = ToUpperCase(Slice(IdChars(m.orderId), 8))
    /\ \A n \in notifications :
          n.orderNumber # <<>> =>
             n.orderNumber = ToUpperCase(Slice(IdChars(n.orderId), 8))

----------------------------------------------------------------------------
(* Properties of the sub-order write *)

\* process p takes the step that writes sub-order s
WritesSubOrder(p, s) ==
    Acting(p) /\ proc[p].pc = "upd_write" /\ proc[p].subOrderId = s

\* C25: a sub-order's confirmedAt changes only in a status write to confirmed and its
\* deliveredAt only in a status write to delivered, which set them to the time of the
\* write; a write of any other status leaves both as they were
C25_StampsFollowStatus ==
    [][\A s \in SubIds :
         /\ subOrders'[s].confirmedAt # subOrders[s].confirmedAt =>
               \E p \in Procs : WritesSubOrder(p, s) /\ proc[p].status = "confirmed"
         /\ subOrders'[s].deliveredAt # subOrders[s].deliveredAt =>
               \E p \in Procs : WritesSubOrder(p, s) /\ proc[p].status = "delivered"
         /\ \A p \in Procs :
               WritesSubOrder(p, s) =>
                  /\ proc[p].status = "confirmed" => subOrders'[s].confirmedAt = clock
                  /\ proc[p].status = "delivered" => subOrders'[s].deliveredAt = clock
                  /\ proc[p].status \notin {"confirmed", "delivered"} =>
                        /\ subOrders'[s].confirmedAt = subOrders[s].confirmedAt
                        /\ subOrders'[s].deliveredAt = subOrders[s].deliveredAt]_vars

\* a confirmed sub-order was later written out_for_delivery and kept its confirmedAt
C25_Witness ==
    \E s \in SubIds :
       /\ subOrders[s].status = "out_for_delivery"
       /\ subOrders[s].confirmedAt # 0
       /\ subOrders[s].updatedAt > subOrders[s].confirmedAt
       /\ subOrders[s].deliveredAt = 0

----------------------------------------------------------------------------
(* Properties of the change callbacks *)

\* the send of callback t has failed
SendFailed(t) == tasks[t].pc \in {"log", "inapp", "done"} /\ ~tasks[t].success

\* callback u went through the check, the mark, the dispatch and the log
Completed(u) ==
    /\ tasks[u].pc \in {"inapp", "done"}
    /\ \E s \in processedOrderStates : s.id = u
    /\ \E l \in notificationLogs : l.id[1] = u
    /\ tasks[u].success => \E m \in mailSends : m.id = u

\* changes t and u came in one batch and the send of t has failed
SiblingFailed(t, u) ==
    IF t \in DOMAIN tasks /\ u \in DOMAIN tasks /\ t # u
    THEN tasks[t].batch = tasks[u].batch /\ SendFailed(t)
    ELSE FALSE

\* the callback of change u ended: skipped as already processed, or completed
Finished(u) ==
    IF u \in DOMAIN tasks THEN tasks[u].pc = "skipped" \/ Completed(u) ELSE FALSE

\* C26: when the send of one change of a batch has failed, every other change of the same
\* batch is still checked and then either skipped as already processed or marked,
\* dispatched and logged
C26_SiblingFailureDoesNotBlock ==
    \A t, u \in 1..MaxChanges : SiblingFailed(t, u) ~> Finished(u)

\* the send of the first change of a batch failed and the second change's succeeded
C26_Witness ==
    \E t, u \in DOMAIN tasks :
       /\ t # u
       /\ tasks[t].batch = tasks[u].batch
       /\ SendFailed(t) /\ tasks[t].pc = "done"
       /\ Completed(u) /\ tasks[u].success
       /\ t < u

\* the notificationLogs entries and the in-app rows callback t wrote
TaskLogs(t) == {l \in notificationLogs : l.id[1] = t}
InAppRows(t) == {n \in notifications : n.id = t}

\* C27: a processed 'added' change is logged as new_order and a processed 'modified'
\* change as status_update, and once its callback has ended the change has exactly one
\* log entry and exactly one in-app row, whether its send succeeded or failed
C27_EventTypeAndOneInAppRow ==
    \A t \in DOMAIN tasks :
       /\ \A l \in TaskLogs(t) :
             /\ tasks[t].change.type = "added" => l.eventType = "new_order"
             /\ tasks[t].change.type = "modified" => l.eventType = "status_update"
             /\ l.notificationStatus = IF tasks[t].success THEN "success" ELSE "failed"
       /\ tasks[t].pc = "done" =>
             Cardinality(TaskLogs(t)) = 1 /\ Cardinality(InAppRows(t)) = 1
       /\ tasks[t].pc # "done" => InAppRows(t) = {}
       /\ \A n \in InAppRows(t) : n.changeType = tasks[t].change.type

\* an 'added' change whose send failed and a 'modified' change whose send succeeded
\* have both ended
C27_Witness ==
    \E t, u \in DOMAIN tasks :
       /\ tasks[t].pc = "done" /\ tasks[t].change.type = "added" /\ ~tasks[t].success
       /\ tasks[u].pc = "done" /\ tasks[u].change.type = "modified" /\ tasks[u].success

----------------------------------------------------------------------------
(* Properties of the synchronizer's calls *)

\* the master order p's sync was called for has no sub-orders
SyncsChildless(p) ==
    proc[p].op = "sync" /\ SubOrdersOfMaster(proc[p].masterOrderId) = <<>>

\* C28: a syncMasterOrderStatus call for a master without sub-orders returns from its
\* read: no step of the call writes a master order or posts a customer email
C28_ChildlessSyncWritesNothing ==
    [][\A p \in Procs :
         (SyncsChildless(p) /\ Acting(p)) =>
            /\ proc[p].pc = "sync_read"
            /\ proc'[p] = Returned("ok", <<>>)
            /\ masterOrders' = masterOrders
            /\ customerEmails' = customerEmails]_vars

\* the first call made has returned and no sub-order was written, so it was a sync; no
\* master order was written, so it was the sync of a master without sub-orders
C28_Witness ==
    /\ clock = 1
    /\ \E p \in Procs : proc[p].pc = "idle" /\ proc[p].result = "ok"
    /\ \A s \in SubIds : subOrders[s] = FreshSubOrder(s)
    /\ \A m \in MasterIds : masterOrders[m] = FreshOrder /\ customerEmails[m] = 0

----------------------------------------------------------------------------
(* Properties of the order of the steps of updateSubOrderStatus *)

\* the place of a step in the body of updateSubOrderStatus
StepRank(pc) ==
    CASE pc = "dec_read"       -> 1
      [] pc = "dec_finish"     -> 2
      [] pc = "upd_write"      -> 3
      [] pc = "upd_notify"     -> 4
      [] pc = "upd_notify_pay" -> 5
      [] pc = "sync_read"      -> 6
      [] pc = "sync_write"     -> 7
      [] pc = "sync_mail"      -> 8
      [] OTHER                 -> 0

\* C29: a call that triggers a decrement starts with the ledger; the steps of a call are
\* taken in the order inventory write, status write, sync read; the inventory is written
\* only by the ledger's commit and the sub-order only by the status write; the sync
\* reads the children of the written sub-order's master, and the call returns only from
\* the sync
C29_DecrementThenWriteThenSync ==
    [][\A p \in Procs :
         /\ (Acting(p) /\ proc[p].pc = "idle" /\ proc'[p].op = "update"
               /\ proc'[p].status = "out_for_delivery"
               /\ proc'[p].previousStatus # "out_for_delivery")
              => proc'[p].pc = "dec_read"
         /\ (Acting(p) /\ proc[p].op = "update") =>
              /\ proc'[p].pc # "idle" => StepRank(proc'[p].pc) >= StepRank(proc[p].pc)
              /\ products' # products => proc[p].pc = "dec_finish" /\ proc'[p].pc = "upd_write"
              /\ subOrders' # subOrders => proc[p].pc = "upd_write"
              /\ proc[p].pc = "upd_write" =>
                    /\ subOrders'[proc[p].subOrderId].status = proc[p].status
                    /\ StepRank(proc'[p].pc) \in 4..6
              /\ proc[p].pc = "sync_read" => proc[p].masterOrderId = MasterOf(proc[p].subOrderId)
              /\ proc'[p].pc = "idle" => proc[p].pc \in {"sync_read", "sync_mail"}]_vars

\* a call that decremented the stock and wrote the status is at its sync's read
C29_Witness ==
    \E p \in Procs :
       /\ proc[p].op = "update" /\ proc[p].pc = "sync_read"
       /\ proc[p].items # <<>> /\ proc[p].stockOk
       /\ subOrders[proc[p].subOrderId].status = "out_for_delivery"
       /\ \E pid \in ProductIds : products[pid] < MaxStock - 1

----------------------------------------------------------------------------
(* Properties of what the workflow writes to a sub-order *)

\* C30: no step deletes a sub-order or changes its items, total, masterOrderId or
\* fournisseurId; a sub-order changes only in the status write of an update call for it,
\* which sets status and updatedAt, and paymentStatus to the argument when one was given
\* and leaves it as it was when none was
C30_UpdateWritesOnlyItsFields ==
    [][/\ DOMAIN subOrders' = DOMAIN subOrders
       /\ \A s \in SubIds :
            /\ subOrders'[s].items = subOrders[s].items
            /\ subOrders'[s].total = subOrders[s].total
            /\ subOrders'[s].masterOrderId = subOrders[s].masterOrderId
            /\ subOrders'[s].fournisseurId = subOrders[s].fournisseurId
            /\ DOMAIN subOrders'[s] = DOMAIN subOrders[s]
            /\ subOrders'[s] # subOrders[s] => \E p \in Procs : WritesSubOrder(p, s)
            /\ \A p \in Procs :
                  WritesSubOrder(p, s) =>
                     /\ subOrders'[s].status = proc[p].status
                     /\ subOrders'[s].updatedAt = clock
                     /\ subOrders'[s].paymentStatus =
                           IF proc[p].paymentStatus = None
                           THEN subOrders[s].paymentStatus
                           ELSE proc[p].paymentStatus]_vars

\* a sub-order written paid by one call was written delivered by a later call without a
\* paymentStatus argument and is still paid
C30_Witness ==
    \E s \in SubIds :
       /\ subOrders[s].status = "delivered"
       /\ subOrders[s].paymentStatus = "paid"
       /\ subOrders[s].confirmedAt # 0
       /\ subOrders[s].deliveredAt > subOrders[s].confirmedAt

----------------------------------------------------------------------------
(* Properties of the listeners' life *)

\* the live subscriptions of supplier f
LiveSubs(f) == {i \in DOMAIN subs : subs[i].fournisseurId = f /\ subs[i].live}

\* C31: whatever initializeOrderMonitoring calls and returned cancel functions were
\* invoked, in any order, a supplier has at most one live subscription
C31_AtMostOneLiveSubscription ==
    \A f \in Suppliers : Cardinality(LiveSubs(f)) <= 1

\* C32: when cleanup() returns, no subscription is live
C32_CleanupClosesEverySubscription ==
    [][Cleanup => \A i \in DOMAIN subs' : ~ subs'[i].live]_vars

----------------------------------------------------------------------------
(* Properties of a call that raises *)

\* C33: an updateSubOrderStatus call that raises has written no product, no sub-order
\* and no master order
C33_RaisingCallWroteNothing ==
    [][\A p \in Procs :
         (Acting(p) /\ proc[p].op # "sync" /\ proc'[p].pc = "idle"
            /\ proc'[p].result = "raised") => proc[p].wrote = {}]_vars

----------------------------------------------------------------------------
(* Properties of a batch that names a product twice *)

\* the sum of the quantities of the lines of items that name product pid
RECURSIVE QuantityFor(_, _)
QuantityFor(items, pid) ==
    IF items = <<>> THEN 0
    ELSE (IF Head(items).productId = pid THEN Head(items).quantity ELSE 0)
         + QuantityFor(Tail(items), pid)

\* no write came between the call's reads and its commit
ReadsCurrent(c) ==
    \A k \in DOMAIN c.items :
       c.items[k].productId \in ProductIds => c.reads[k] = products[c.items[k].productId]

\* C34: a decrementMultipleProductsStock(items) call that succeeds, with no other write
\* between its reads and its commit, lowers every product's stockQuantity by the sum of the
\* quantities of the lines that name it
C34_DecreaseIsSumOfLines ==
    [][\A p \in Procs :
         (Acting(p) /\ proc[p].op = "decrement" /\ proc[p].pc = "dec_finish"
            /\ proc'[p].result = "success" /\ ReadsCurrent(proc[p])) =>
               \A pid \in ProductIds :
                  products'[pid] = products[pid] - QuantityFor(proc[p].items, pid)]_vars

----------------------------------------------------------------------------
(* Properties of the customer email *)

\* C35: a sync posts the customer email only when its write changed the master's status
\* or paymentStatus
C35_EmailOnlyOnChange ==
    [][\A p \in Procs :
         (Acting(p) /\ proc[p].pc = "sync_mail" /\ customerEmails' # customerEmails)
            => proc[p].changed]_vars

----------------------------------------------------------------------------
(* Properties of the callbacks of a cancelled subscription *)

\* C36: once the cancel function of a subscription has returned, the callbacks of that
\* subscription, those started before the cancel included, post no supplier email and
\* write no notificationLogs entry and no in-app row
C36_NothingProducedAfterCancel ==
    [][\A t \in DOMAIN tasks :
         (tasks'[t] # tasks[t] /\ subs[tasks[t].sub].cancelled) =>
            /\ mailSends' = mailSends
            /\ notificationLogs' = notificationLogs
            /\ notifications' = notifications]_vars

-----------------------------------------------------------------------------
(* Properties of the throttle over a stream of batches *)

\* the times at which a batch of supplier f was processed
ProcessedAt(f) == {tasks[t].at : t \in TasksOf(tasks, f)}

\* no batch of supplier f was processed less than the cooldown ago
CooldownOver(f) == \A a \in ProcessedAt(f) : now - a >= Cooldown

\* C37: the cooldown runs from the last batch that was processed: a batch of supplier f
\* that arrives when no batch of f was processed in the last 2 seconds is processed whole,
\* whatever batches were dropped since, and a dropped batch leaves the timestamp as it was
C37_CooldownFromLastProcessed ==
    [][\A i \in DOMAIN subs, b \in SUBSET ChangeInputs :
         Deliver(i, b) =>
            /\ CooldownOver(subs[i].fournisseurId) =>
                  /\ dropped' = dropped
                  /\ Len(tasks') = Len(tasks) + Cardinality(b)
                  /\ lastProcessedTimestamp'[subs[i].fournisseurId] = now
            /\ dropped' # dropped => UNCHANGED lastProcessedTimestamp]_vars

\* a batch was processed, the next one was dropped within the cooldown, and a third one
\* was processed 2 seconds after the first and less than 2 seconds after the dropped one
C37_Witness ==
    \E i \in DOMAIN subs :
       \E t1, t2 \in TasksOf(tasks, subs[i].fournisseurId) :
          /\ tasks[t2].sub = i
          /\ tasks[t2].at - tasks[t1].at >= Cooldown
          /\ \A a \in ProcessedAt(subs[i].fournisseurId) :
                a <= tasks[t1].at \/ a >= tasks[t2].at
          /\ subs[i].droppedAt # Absent
          /\ tasks[t1].at < subs[i].droppedAt
          /\ subs[i].droppedAt < tasks[t2].at
          /\ tasks[t2].at - subs[i].droppedAt < Cooldown

-----------------------------------------------------------------------------
(* Properties of the client EmailService *)

\* C38: while the mail relay answers every request with ok, a sendOrderNotification for
\* a status that has a template posts the email and returns true, also when it is called
\* while the initialize() of another call is in flight
C38_SendsWhileInitializing ==
    \A c \in DOMAIN clientCalls :
       (/\ clientCalls[c].op = "sendOrderNotification"
        /\ clientCalls[c].status \in ORDER_STATUS_TEMPLATES
        /\ clientCalls[c].pc = "done"
        /\ ~ relayFailed) =>
          /\ clientCalls[c].result = "true"
          /\ \E m \in emailPosts : m.call = c /\ m.endpoint = "/send-email"

====
